---------------------------- MODULE Spec2Model ----------------------------
(***************************************************************************)
(* Model of main.py: accumulation of name records into two count indexes,  *)
(* indexing (sorting / gap filling / year totals), rank and frequency      *)
(* series of a name, and the sustained / falling popularity heuristics.    *)
(*                                                                         *)
(* Names are sequences of character codes, so that lower-casing and the    *)
(* lexicographic tie-break of the sort are computed, not assumed.          *)
(* Python floats are IEEE-754 doubles: a positive double is modelled as    *)
(* <<e, h, l>> with value (h * 2^27 + l) * 2^(e - 52), 2^25 <= h < 2^26,   *)
(* 0 <= l < 2^27 (a 53 bit significand in two limbs), zero as <<0, 0, 0>>. *)
(* Division and the product with 1.25 round to nearest, ties to even.      *)
(***************************************************************************)
EXTENDS Integers, Sequences, FiniteSets, Bags, TLC

VARIABLES
    pc,                       \* "load", "indexed", "done", "error"
    gender,                   \* args.gender.upper()
    loaded,                   \* bag of the rows read while loading (history)
    year_name_counts,         \* defaultdict year -> defaultdict name -> count
    name_year_counts,         \* defaultdict name -> defaultdict year -> count
    sorted_year_name_counts,  \* year -> ordered <<name, count>> pairs
    sorted_name_year_counts,  \* name -> ordered <<year, count>> pairs
    year_total_counts,        \* year -> total
    call,                     \* the operation applied to the indexed tables
    ret                       \* its outcome

vars == <<pc, gender, loaded, year_name_counts, name_year_counts,
          sorted_year_name_counts, sorted_name_year_counts,
          year_total_counts, call, ret>>

-----------------------------------------------------------------------------
(* Bounds of the model *)

MaxYear == 3
MaxRows == 3

-----------------------------------------------------------------------------
(* Strings *)

Sam == <<83, 97, 109>>
sam == <<115, 97, 109>>
Max == <<77, 97, 120>>
max == <<109, 97, 120>>
sa == <<115, 97>>

LowerChar(c) == IF c >= 65 /\ c <= 90 THEN c + 32 ELSE c

Lower(s) == [i \in 1..Len(s) |-> LowerChar(s[i])]

\* Python's str "<": code point order, a proper prefix is smaller.
StrLt(a, b) ==
    \E i \in 1..(Len(b)) :
        /\ \A j \in 1..(i - 1) : j <= Len(a) /\ a[j] = b[j]
        /\ \/ i = Len(a) + 1
           \/ i <= Len(a) /\ a[i] < b[i]

\* (mutant) ties between counts broken by the smaller name first
ItemLt_NameAscending(x, y) == x[1] < y[1] \/ (x[1] = y[1] /\ StrLt(y[2], x[2]))

\* Python's tuple "<" on (count, name).
ItemLt(x, y) == x[1] < y[1] \/ (x[1] = y[1] /\ StrLt(x[2], y[2]))

-----------------------------------------------------------------------------
(* Floats *)

HiOne == 2^25
HiTop == 2^26
LoTop == 2^27

FZero == <<0, 0, 0>>

RECURSIVE ScaleUp(_, _, _)
ScaleUp(d, a, s) == IF 2 * d <= a THEN ScaleUp(2 * d, a, s + 1) ELSE <<d, s>>

RECURSIVE ScaleDown(_, _, _)
ScaleDown(a, b, s) == IF a < b THEN ScaleDown(2 * a, b, s + 1) ELSE <<a, s>>

\* n further quotient bits of r / den (r < den), appended to acc: eight bits
\* at a time while the products stay below 2^31, else bit by bit.
RECURSIVE DivBits(_, _, _, _)
DivBits(r, den, n, acc) ==
    IF n = 0 THEN <<acc, r>>
    ELSE IF n >= 8 /\ den < 2^23
    THEN DivBits((256 * r) % den, den, n - 8, 256 * acc + ((256 * r) \div den))
    ELSE IF 2 * r >= den THEN DivBits(2 * r - den, den, n - 1, 2 * acc + 1)
                         ELSE DivBits(2 * r, den, n - 1, 2 * acc)

RoundUp(e, h, l) ==
    IF l + 1 < LoTop THEN <<e, h, l + 1>>
    ELSE IF h + 1 < HiTop THEN <<e, h + 1, 0>>
    ELSE <<e + 1, HiOne, 0>>

\* a / b for ints a >= 0, b > 0 (both below 2^29): the correctly rounded
\* double, by long division to 53 bits and the remainder's rounding.
FDiv(a, b) ==
    IF a = 0 THEN FZero
    ELSE LET up == IF a >= b THEN ScaleUp(b, a, 0) ELSE <<b, 0>>
             dn == IF a >= b THEN <<a, 0>> ELSE ScaleDown(a, b, 0)
             den == up[1]
             num == dn[1]
             e == up[2] - dn[2]
             hp == DivBits(num - den, den, 25, 1)
             lp == DivBits(hp[2], den, 27, 0)
             h == hp[1]
             l == lp[1]
             r == lp[2]
         IN  IF 2 * r > den \/ (2 * r = den /\ l % 2 = 1)
             THEN RoundUp(e, h, l) ELSE <<e, h, l>>

\* (1 + tolerance) * x with tolerance = 0.25: 1.25 is exact, the product rounds.
FMulTolerance(x) ==
    IF x = FZero THEN FZero
    ELSE LET l5 == 5 * x[3]
             lo == l5 % LoTop
             hi == 5 * x[2] + (l5 \div LoTop)
             big == hi >= 4 * HiTop
             k == IF big THEN 8 ELSE 4
             e == IF big THEN x[1] + 1 ELSE x[1]
             h == hi \div k
             l == (hi % k) * (LoTop \div k) + (lo \div k)
             rem == lo % k
         IN  IF 2 * rem > k \/ (2 * rem = k /\ l % 2 = 1)
             THEN RoundUp(e, h, l) ELSE <<e, h, l>>

FLt(x, y) ==
    IF x = FZero THEN y # FZero
    ELSE IF y = FZero THEN FALSE
    ELSE \/ x[1] < y[1]
         \/ x[1] = y[1] /\ x[2] < y[2]
         \/ x[1] = y[1] /\ x[2] = y[2] /\ x[3] < y[3]

-----------------------------------------------------------------------------
(* Dictionaries *)

EmptyDict == <<>>

\* d[k] += v on a defaultdict(lambda: 0)
DictAdd(d, k, v) ==
    IF k \in DOMAIN d THEN [d EXCEPT ![k] = @ + v] ELSE d @@ (k :> v)

\* outer[k1][k2] += v on a defaultdict of defaultdicts
DictAdd2(outer, k1, k2, v) ==
    IF k1 \in DOMAIN outer
    THEN [outer EXCEPT ![k1] = DictAdd(@, k2, v)]
    ELSE outer @@ (k1 :> (k2 :> v))

MinOf(S) == CHOOSE x \in S : \A y \in S : x <= y
MaxOf(S) == CHOOSE x \in S : \A y \in S : y <= x

-----------------------------------------------------------------------------
(* Records of the input files: row = (state, gender, year, name, count) *)

Years == 1..MaxYear
RawNames == {Sam, sam, Max}
Rows ==
    [gender : {"M"}, year : Years, name : RawNames, count : {1, 2}]
    \cup [gender : {"F"}, year : {1}, name : {Sam}, count : {1}]
    \cup [gender : {"M"}, year : {1}, name : {Sam}, count : {0}]

NoCall == [op |-> "none"]
NoRet == [err |-> "none"]

Init ==
    /\ pc = "load"
    /\ gender \in {"M", "F"}
    /\ loaded = EmptyBag
    /\ year_name_counts = EmptyDict
    /\ name_year_counts = EmptyDict
    /\ sorted_year_name_counts = EmptyDict
    /\ sorted_name_year_counts = EmptyDict
    /\ year_total_counts = EmptyDict
    /\ call = NoCall
    /\ ret = NoRet

-----------------------------------------------------------------------------
(* load_state_data_: one row of one state file *)

\* (mutant) the count of a row replaces the count accumulated so far
LoadedYearNameCounts_Overwrite(row) ==
    IF row.year \in DOMAIN year_name_counts
    THEN [year_name_counts EXCEPT ![row.year] =
             [n \in DOMAIN @ \cup {Lower(row.name)} |->
                 IF n = Lower(row.name) THEN row.count ELSE @[n]]]
    ELSE year_name_counts @@ (row.year :> (Lower(row.name) :> row.count))

LoadedYearNameCounts(row) ==
    DictAdd2(year_name_counts, row.year, Lower(row.name), row.count)

LoadedNameYearCounts(row) ==
    DictAdd2(name_year_counts, Lower(row.name), row.year, row.count)

\* The rows of all state files are read one after the other; which row comes
\* next covers every split of a batch into files and every order of them.
LoadRow ==
    /\ pc = "load"
    /\ BagCardinality(loaded) < MaxRows
    /\ \E row \in Rows :
        /\ loaded' = loaded (+) SetToBag({row})
        /\ IF row.gender # gender \/ row.count <= 0
           THEN UNCHANGED <<year_name_counts, name_year_counts>>
           ELSE /\ year_name_counts' = LoadedYearNameCounts(row)
                /\ name_year_counts' = LoadedNameYearCounts(row)
    /\ UNCHANGED <<pc, gender, sorted_year_name_counts, sorted_name_year_counts,
                   year_total_counts, call, ret>>

-----------------------------------------------------------------------------
(* sort_year_name_counts, sort_name_year_counts, year totals *)

\* items.sort(reverse=True) on a list of distinct (count, name) tuples
RECURSIVE SortReverse(_)
SortReverse(items) ==
    IF items = {} THEN <<>>
    ELSE LET top == CHOOSE x \in items : \A y \in items \ {x} : ItemLt(y, x)
         IN  <<top>> \o SortReverse(items \ {top})

\* year_name_counts[year] on the defaultdict: a missing year reads as empty
YearItems(ync, year) ==
    IF year \in DOMAIN ync
    THEN {<<ync[year][n], n>> : n \in DOMAIN ync[year]}
    ELSE {}

\* the OrderedDict of one year, as its <<name, count>> pairs in order
SortedYear(ync, year) ==
    LET items == SortReverse(YearItems(ync, year))
    IN  [i \in 1..Len(items) |-> <<items[i][2], items[i][1]>>]

SortYearNameCounts(ync) ==
    [year \in MinOf(DOMAIN ync)..MaxOf(DOMAIN ync) |-> SortedYear(ync, year)]

\* the defaultdict after the reads of sort_year_name_counts
TouchedYearNameCounts(ync) ==
    [year \in MinOf(DOMAIN ync)..MaxOf(DOMAIN ync) |->
        IF year \in DOMAIN ync THEN ync[year] ELSE EmptyDict]

\* (mutant) range(year_min, year_max): the last year is left out
SortedName_ShortRange(year_counts) ==
    LET year_min == MinOf(DOMAIN year_counts)
        year_max == MaxOf(DOMAIN year_counts)
    IN  [i \in 1..(year_max - year_min) |->
            LET year == year_min + i - 1
            IN  <<year, IF year \in DOMAIN year_counts THEN year_counts[year] ELSE 0>>]

\* year_counts[year] on the inner defaultdict: a missing year reads as 0
SortedName(year_counts) ==
    LET year_min == MinOf(DOMAIN year_counts)
        year_max == MaxOf(DOMAIN year_counts)
    IN  [i \in 1..(year_max - year_min + 1) |->
            LET year == year_min + i - 1
            IN  <<year, IF year \in DOMAIN year_counts THEN year_counts[year] ELSE 0>>]

SortNameYearCounts(nyc) == [name \in DOMAIN nyc |-> SortedName(nyc[name])]

\* the inner defaultdicts after the reads of sort_name_year_counts
TouchedNameYearCounts(nyc) ==
    [name \in DOMAIN nyc |->
        [year \in MinOf(DOMAIN nyc[name])..MaxOf(DOMAIN nyc[name]) |->
            IF year \in DOMAIN nyc[name] THEN nyc[name][year] ELSE 0]]

RECURSIVE SumCounts(_)
SumCounts(pairs) ==
    IF pairs = <<>> THEN 0 ELSE Head(pairs)[2] + SumCounts(Tail(pairs))

YearTotalCounts(sync) == [year \in DOMAIN sync |-> SumCounts(sync[year])]

Index ==
    /\ pc = "load"
    /\ IF DOMAIN year_name_counts = {}
       THEN \* min() of an empty sequence
            /\ pc' = "error"
            /\ ret' = [err |-> "ValueError"]
            /\ UNCHANGED <<year_name_counts, name_year_counts,
                           sorted_year_name_counts, sorted_name_year_counts,
                           year_total_counts>>
       ELSE /\ pc' = "indexed"
            /\ sorted_year_name_counts' = SortYearNameCounts(year_name_counts)
            /\ year_name_counts' = TouchedYearNameCounts(year_name_counts)
            /\ sorted_name_year_counts' = SortNameYearCounts(name_year_counts)
            /\ name_year_counts' = TouchedNameYearCounts(name_year_counts)
            /\ year_total_counts' =
                   YearTotalCounts(SortYearNameCounts(year_name_counts))
            /\ UNCHANGED ret
    /\ loaded' = EmptyBag      \* the batch is read; its history ends here
    /\ UNCHANGED <<gender, call>>

-----------------------------------------------------------------------------
(* Reads of the indexed (ordered) tables *)

NamesOf(pairs) == {pairs[i][1] : i \in DOMAIN pairs}

\* d[key] on an OrderedDict whose key is present
ValueOf(pairs, key) == pairs[CHOOSE i \in DOMAIN pairs : pairs[i][1] = key][2]

\* next(idx + 1 for idx, n in enumerate(d.keys()) if n == name)
RankIn(pairs, name) == CHOOSE i \in DOMAIN pairs : pairs[i][1] = name

-----------------------------------------------------------------------------
(* plot_trends_for_name, up to the series handed to the plots *)

PlotTrendsForName(name, sync, snyc, ytc) ==
    IF name \notin DOMAIN snyc
    THEN [err |-> "RuntimeError", counts |-> <<>>, frequencies |-> <<>>,
          ranks |-> <<>>]
    ELSE LET counts == snyc[name]
             years == NamesOf(counts)
         IN  IF \E year \in years : ytc[year] = 0
             THEN [err |-> "ZeroDivisionError", counts |-> counts,
                   frequencies |-> <<>>, ranks |-> <<>>]
             ELSE [err |-> "none",
                   counts |-> counts,
                   frequencies |->
                       [year \in years |->
                           FDiv(ValueOf(counts, year), ytc[year])],
                   ranks |->
                       [year \in {y \in years : ValueOf(counts, y) > 0} |->
                           RankIn(sync[year], name)]]

\* main, "if args.name is not None": the statistics of the target year, then
\* the trends. year_arg is <<>> for None and <<year>> otherwise.
NameStatistics(name, year, sync, ytc) ==
    IF year \notin DOMAIN sync THEN [err |-> "KeyError", stats |-> <<>>]
    ELSE IF ytc[year] = 0 THEN [err |-> "ZeroDivisionError", stats |-> <<>>]
    ELSE LET present == name \in NamesOf(sync[year])
             count == IF present THEN ValueOf(sync[year], name) ELSE 0
         IN  [err |-> "none",
              stats |-> <<count, FDiv(count, ytc[year]),
                          IF present THEN RankIn(sync[year], name) ELSE -1>>]

TargetYear(year_arg) ==
    IF year_arg = <<>> THEN MaxOf(DOMAIN year_total_counts) ELSE year_arg[1]

NameQueryResult(name_arg, year_arg) ==
    LET name == Lower(name_arg)
        st == NameStatistics(name, TargetYear(year_arg),
                             sorted_year_name_counts, year_total_counts)
        pl == PlotTrendsForName(name, sorted_year_name_counts,
                                sorted_name_year_counts, year_total_counts)
    IN  IF st.err # "none"
        THEN [err |-> st.err, stats |-> <<>>, counts |-> <<>>,
              frequencies |-> <<>>, ranks |-> <<>>]
        ELSE [err |-> pl.err, stats |-> st.stats, counts |-> pl.counts,
              frequencies |-> pl.frequencies, ranks |-> pl.ranks]

NameArgs == RawNames \cup {sa}
YearArgs == {<<>>} \cup {<<y>> : y \in 1..(MaxYear + 1)}

NameQuery ==
    /\ pc = "indexed"
    /\ \E name_arg \in NameArgs, year_arg \in YearArgs :
        /\ call' = [op |-> "name", name |-> Lower(name_arg), year |-> year_arg]
        /\ ret' = NameQueryResult(name_arg, year_arg)
    /\ pc' = "done"
    /\ UNCHANGED <<gender, loaded, year_name_counts, name_year_counts,
                   sorted_year_name_counts, sorted_name_year_counts,
                   year_total_counts>>

-----------------------------------------------------------------------------
(* is_name_frequency_above_threshold *)

\* (mutant) "<=" for "<": a frequency equal to the threshold is rejected
AboveStep_Strict(year, name, min_frequency, sync, ytc) ==
    IF year \notin DOMAIN sync THEN "KeyError"
    ELSE IF name \notin NamesOf(sync[year]) THEN "False"
    ELSE IF ytc[year] = 0 THEN "ZeroDivisionError"
    ELSE IF ~FLt(min_frequency, FDiv(ValueOf(sync[year], name), ytc[year]))
         THEN "False"
    ELSE "pass"

\* (mutant) a year without the name is skipped instead of ending the loop
AboveStep_AbsentPasses(year, name, min_frequency, sync, ytc) ==
    IF year \notin DOMAIN sync THEN "KeyError"
    ELSE IF name \notin NamesOf(sync[year]) THEN "pass"
    ELSE IF ytc[year] = 0 THEN "ZeroDivisionError"
    ELSE IF FLt(FDiv(ValueOf(sync[year], name), ytc[year]), min_frequency)
         THEN "False"
    ELSE "pass"

\* one iteration of the loop: "pass" goes on to the next year
AboveStep(year, name, min_frequency, sync, ytc) ==
    IF year \notin DOMAIN sync THEN "KeyError"
    ELSE IF name \notin NamesOf(sync[year]) THEN "False"
    ELSE IF ytc[year] = 0 THEN "ZeroDivisionError"
    ELSE IF FLt(FDiv(ValueOf(sync[year], name), ytc[year]), min_frequency)
         THEN "False"
    ELSE "pass"

\* the loop ends at the first year that does not pass
IsNameFrequencyAboveThreshold(name, min_frequency, year_min, year_max, sync, ytc) ==
    LET stops == {year \in year_min..year_max :
                     AboveStep(year, name, min_frequency, sync, ytc) # "pass"}
    IN  IF stops = {} THEN "True"
        ELSE AboveStep(MinOf(stops), name, min_frequency, sync, ytc)

-----------------------------------------------------------------------------
(* is_name_frequency_falling *)

YearMid(year_min, year_max) == year_min + ((year_max - year_min + 2) \div 2)

\* one accumulating loop over range(from, to), the range halved to keep the
\* evaluation shallow: <<err, name_count, total_count>>
RECURSIVE SumRange(_, _, _, _, _)
SumRange(from, to, name, sync, ytc) ==
    IF from >= to THEN <<"none", 0, 0>>
    ELSE IF from + 1 = to
    THEN IF from \notin DOMAIN sync THEN <<"KeyError", 0, 0>>
         ELSE IF name \notin NamesOf(sync[from]) THEN <<"KeyError", 0, 0>>
         ELSE <<"none", ValueOf(sync[from], name), ytc[from]>>
    ELSE LET cut == from + ((to - from) \div 2)
             lo == SumRange(from, cut, name, sync, ytc)
             hi == SumRange(cut, to, name, sync, ytc)
         IN  IF lo[1] # "none" THEN lo
             ELSE IF hi[1] # "none" THEN hi
             ELSE <<"none", lo[2] + hi[2], lo[3] + hi[3]>>

IsNameFrequencyFalling(name, year_min, year_max, sync, ytc) ==
    LET year_mid == YearMid(year_min, year_max)
        half1 == SumRange(year_min, year_mid, name, sync, ytc)
        half2 == SumRange(year_mid, year_max + 1, name, sync, ytc)
    IN  IF half1[1] # "none" THEN half1[1]
        ELSE IF half2[1] # "none" THEN half2[1]
        ELSE IF half1[3] = 0 \/ half2[3] = 0 THEN "ZeroDivisionError"
        ELSE IF FLt(FMulTolerance(FDiv(half2[2], half2[3])),
                    FDiv(half1[2], half1[3]))
             THEN "True" ELSE "False"

\* Direct calls of the two predicates on the indexed tables. min_frequency
\* is given as the quotient p / q of two ints, as every caller computes it.
WindowYears == 0..(MaxYear + 1)
MinFrequencies == {<<1, 3>>, <<1, 2>>}

CallIsAbove ==
    /\ pc = "indexed"
    /\ \E name \in DOMAIN sorted_name_year_counts, mf \in MinFrequencies,
          year_min \in WindowYears, year_max \in WindowYears :
        /\ year_max >= year_min - 1
        /\ call' = [op |-> "above", name |-> name, min_frequency |-> mf,
                    year_min |-> year_min, year_max |-> year_max]
        /\ ret' = [val |-> IsNameFrequencyAboveThreshold(
                               name, FDiv(mf[1], mf[2]), year_min, year_max,
                               sorted_year_name_counts, year_total_counts)]
    /\ pc' = "done"
    /\ UNCHANGED <<gender, loaded, year_name_counts, name_year_counts,
                   sorted_year_name_counts, sorted_name_year_counts,
                   year_total_counts>>

CallIsFalling ==
    /\ pc = "indexed"
    /\ \E name \in DOMAIN sorted_name_year_counts,
          year_min \in WindowYears, year_max \in WindowYears :
        /\ year_max >= year_min - 1
        /\ call' = [op |-> "falling", name |-> name,
                    year_min |-> year_min, year_max |-> year_max]
        /\ ret' = [val |-> IsNameFrequencyFalling(
                               name, year_min, year_max,
                               sorted_year_name_counts, year_total_counts)]
    /\ pc' = "done"
    /\ UNCHANGED <<gender, loaded, year_name_counts, name_year_counts,
                   sorted_year_name_counts, sorted_name_year_counts,
                   year_total_counts>>

-----------------------------------------------------------------------------
(* show_filtered_top_names *)

SustainedYears == 50
ShortYears == 10
MidYears == 20
LongYears == 50

KeepName(name, min_frequency, year, sync, ytc) ==
    LET above == IsNameFrequencyAboveThreshold(
                     name, min_frequency, year - SustainedYears + 1, year,
                     sync, ytc)
        fall10 == IsNameFrequencyFalling(name, year - ShortYears + 1, year,
                                         sync, ytc)
        fall20 == IsNameFrequencyFalling(name, year - MidYears + 1, year,
                                         sync, ytc)
        fall50 == IsNameFrequencyFalling(name, year - LongYears + 1, year,
                                         sync, ytc)
    IN  IF above # "True" THEN above
        ELSE IF fall10 # "False" THEN (IF fall10 = "True" THEN "False" ELSE fall10)
        ELSE IF fall20 # "False" THEN (IF fall20 = "True" THEN "False" ELSE fall20)
        ELSE IF fall50 # "False" THEN (IF fall50 = "True" THEN "False" ELSE fall50)
        ELSE "True"

\* the candidate names: the first num_candidates keys of the year
Candidates(num_candidates, pairs) ==
    [i \in 1..(IF num_candidates <= 0 THEN 0
               ELSE IF num_candidates < Len(pairs) THEN num_candidates
               ELSE Len(pairs)) |-> pairs[i][1]]

\* the lazy filter drives the printing loop: the lines printed before a
\* raising keep_name stay printed
RECURSIVE FilterPrint(_, _, _, _, _, _)
FilterPrint(names, min_frequency, year, sync, ytc, out) ==
    IF names = <<>> THEN [err |-> "none", out |-> out]
    ELSE LET keep == KeepName(Head(names), min_frequency, year, sync, ytc)
         IN  IF keep \notin {"True", "False"} THEN [err |-> keep, out |-> out]
             ELSE FilterPrint(Tail(names), min_frequency, year, sync, ytc,
                      IF keep = "True"
                      THEN Append(out, <<Head(names),
                               FDiv(ValueOf(sync[year], Head(names)), ytc[year])>>)
                      ELSE out)

ShowFilteredTopNames(num_candidates, year, sync, ytc) ==
    IF year \notin DOMAIN sync THEN [err |-> "KeyError", out |-> <<>>]
    ELSE LET names == Candidates(num_candidates, sync[year])
         IN  IF names = <<>> THEN [err |-> "IndexError", out |-> <<>>]
             ELSE FilterPrint(names,
                      FDiv(sync[year][Len(names)][2], ytc[year]),
                      year, sync, ytc, <<>>)

SpanYears == 51
FilterYearArgs == {<<>>, <<SpanYears - 1>>, <<SpanYears - 2>>, <<SpanYears + 1>>}
NumCandidates == 0..3

FilterTop ==
    /\ pc = "indexed"
    /\ \E num_candidates \in NumCandidates, year_arg \in FilterYearArgs :
        /\ call' = [op |-> "filter", num_candidates |-> num_candidates,
                    year |-> TargetYear(year_arg)]
        /\ ret' = ShowFilteredTopNames(num_candidates, TargetYear(year_arg),
                      sorted_year_name_counts, year_total_counts)
    /\ pc' = "done"
    /\ UNCHANGED <<gender, loaded, year_name_counts, name_year_counts,
                   sorted_year_name_counts, sorted_name_year_counts,
                   year_total_counts>>

-----------------------------------------------------------------------------
(* Accumulated tables given directly: the state the load loop leaves for a
   batch holding one row per (name, year) with a positive count *)

TableNames == {sam, max}

YearsOf(cnt, years) == {y \in years : \E n \in TableNames : cnt[n][y] > 0}

YearTableOf(cnt, years) ==
    [y \in YearsOf(cnt, years) |->
        [n \in {m \in TableNames : cnt[m][y] > 0} |-> cnt[n][y]]]

NameTableOf(cnt, years) ==
    [n \in {m \in TableNames : \E y \in years : cnt[m][y] > 0} |->
        [y \in {z \in years : cnt[n][z] > 0} |-> cnt[n][y]]]

BatchOf(cnt, years) ==
    SetToBag({[gender |-> "M", year |-> y, name |-> n, count |-> cnt[n][y]] :
                 <<n, y>> \in {c \in TableNames \X years : cnt[c[1]][c[2]] > 0}})

Accumulated(cnt, years) ==
    /\ pc = "load"
    /\ gender = "M"
    /\ loaded = BatchOf(cnt, years)
    /\ year_name_counts = YearTableOf(cnt, years)
    /\ name_year_counts = NameTableOf(cnt, years)
    /\ sorted_year_name_counts = EmptyDict
    /\ sorted_name_year_counts = EmptyDict
    /\ year_total_counts = EmptyDict
    /\ call = NoCall
    /\ ret = NoRet

\* every table over Years with sam in {absent, 2, 5} and max in {absent, 1}
InitTrend ==
    \E s \in [Years -> {0, 2, 5}], m \in [Years -> {0, 1}] :
        Accumulated(sam :> s @@ max :> m, Years)

\* one change of level per name: count lo before the year brk, hi from it on
Level(lo, hi, brk) == [y \in 1..SpanYears |-> IF y < brk THEN lo ELSE hi]
Breaks == {2, SpanYears - 24, SpanYears - 9, SpanYears - 4}

InitFilter ==
    \E slo \in {0, 2, 5}, shi \in {0, 2, 5}, sbrk \in Breaks,
       mlo \in {0, 1, 3}, mhi \in {0, 1, 3}, mbrk \in Breaks :
        Accumulated(sam :> Level(slo, shi, sbrk) @@ max :> Level(mlo, mhi, mbrk),
                    1..SpanYears)

-----------------------------------------------------------------------------

Next == LoadRow \/ Index \/ NameQuery

Spec == Init /\ [][Next]_vars

NextTrend == Index \/ CallIsAbove \/ CallIsFalling

SpecTrend == InitTrend /\ [][NextTrend]_vars

NextFilter == Index \/ FilterTop

SpecFilter == InitFilter /\ [][NextFilter]_vars

-----------------------------------------------------------------------------
(* Properties *)

Indexed == pc \in {"indexed", "done"}

RECURSIVE SumOver(_, _)
SumOver(S, f) ==
    IF S = {} THEN 0
    ELSE LET x == CHOOSE x \in S : TRUE IN f[x] + SumOver(S \ {x}, f)

\* -- C6 ----------------------------------------------------------------
\* The rows of the batch that survive the gender and count filters.
Surviving == {r \in BagToSet(loaded) : r.gender = gender /\ r.count > 0}

CellSum(year, name) ==
    LET cell == {r \in Surviving : r.year = year /\ Lower(r.name) = name}
    IN  SumOver(cell, [r \in cell |-> r.count * CopiesIn(r, loaded)])

\* C6: whatever the order in which the rows of a batch were read, the two
\* sparse tables hold, for each year and lowercased name with a surviving
\* row, the sum of the counts of the surviving rows, and nothing else.
C6_AccumulationIsOrderIndependent ==
    pc = "load" =>
        /\ year_name_counts =
               [y \in {r.year : r \in Surviving} |->
                   [n \in {Lower(r.name) : r \in {q \in Surviving : q.year = y}} |->
                       CellSum(y, n)]]
        /\ name_year_counts =
               [n \in {Lower(r.name) : r \in Surviving} |->
                   [y \in {r.year : r \in {q \in Surviving : Lower(q.name) = n}} |->
                       CellSum(y, n)]]

C6_Witness ==
    /\ pc = "load"
    /\ \E r1, r2, r3 \in BagToSet(loaded) :
        /\ r1.name = Sam /\ r2.name = sam /\ r1.year = r2.year
        /\ r1 \in Surviving /\ r2 \in Surviving /\ r3 \notin Surviving
        /\ year_name_counts[r1.year][sam] = r1.count + r2.count

\* -- C5 ----------------------------------------------------------------
\* The years in which a name has accumulated occurrences, read off the year
\* table.
OccurrenceYears(n) ==
    {y \in DOMAIN year_name_counts : n \in DOMAIN year_name_counts[y]}

\* C5: after indexing, the entry of every name lists exactly the years from
\* its first to its last year of occurrence, in ascending order, with the
\* accumulated count in a year of occurrence and 0 in every other year.
C5_NameTableIsDense ==
    Indexed =>
        /\ DOMAIN sorted_name_year_counts =
               UNION {DOMAIN year_name_counts[y] : y \in DOMAIN year_name_counts}
        /\ \A n \in DOMAIN sorted_name_year_counts :
            LET entry == sorted_name_year_counts[n]
                first == MinOf(OccurrenceYears(n))
                last == MaxOf(OccurrenceYears(n))
            IN  /\ Len(entry) = last - first + 1
                /\ \A i \in 1..Len(entry) :
                    /\ entry[i][1] = first + i - 1
                    /\ entry[i][2] =
                           IF first + i - 1 \in OccurrenceYears(n)
                           THEN year_name_counts[first + i - 1][n] ELSE 0

C5_Witness ==
    /\ pc = "indexed"
    /\ \E n \in DOMAIN sorted_name_year_counts :
        /\ Len(sorted_name_year_counts[n]) = 3
        /\ sorted_name_year_counts[n][2][2] = 0
        /\ sorted_name_year_counts[n][3][2] > 0

\* -- C1 ----------------------------------------------------------------
\* The names of year y that come before n: a greater count, or the same
\* count and a greater name.
Before(y, n) ==
    {m \in DOMAIN year_name_counts[y] :
        \/ year_name_counts[y][m] > year_name_counts[y][n]
        \/ /\ year_name_counts[y][m] = year_name_counts[y][n]
           /\ StrLt(n, m)}

\* C1: the position (from 1) of a name with a positive count in the ordered
\* view of a year, and the rank plotted for it, is 1 + the number of names
\* of the year with a greater count, or an equal count and a greater name.
C1_RankCountsNamesBefore ==
    Indexed =>
        \A y \in DOMAIN sorted_year_name_counts :
            \A n \in DOMAIN year_name_counts[y] :
                /\ n \in NamesOf(sorted_year_name_counts[y])
                /\ RankIn(sorted_year_name_counts[y], n) =
                       1 + Cardinality(Before(y, n))
                /\ (call.op = "name" /\ call.name = n /\ ret.err = "none") =>
                       /\ y \in DOMAIN ret.ranks
                       /\ ret.ranks[y] = 1 + Cardinality(Before(y, n))

C1_Witness ==
    /\ pc = "done" /\ call.op = "name" /\ call.name = max /\ ret.err = "none"
    /\ \E y \in DOMAIN ret.ranks :
        /\ ret.ranks[y] = 2
        /\ sam \in DOMAIN year_name_counts[y]
        /\ year_name_counts[y][sam] = year_name_counts[y][max]

\* -- C7 ----------------------------------------------------------------
\* C7: when the trends of a name are computed and a year of its dense range
\* has total 0, the computation completes and the frequency of that year
\* is 0.
C7_ZeroTotalGivesZeroFrequency ==
    (/\ pc = "done" /\ call.op = "name" /\ ret.stats # <<>>
     /\ call.name \in DOMAIN sorted_name_year_counts) =>
        \A year \in NamesOf(sorted_name_year_counts[call.name]) :
            year_total_counts[year] = 0 =>
                /\ ret.err = "none"
                /\ ret.frequencies[year] = FZero

\* -- C9 ----------------------------------------------------------------
\* C9: indexing leaves the two sparse tables as they were.
C9_IndexLeavesSparseTablesUnchanged ==
    [][(pc = "load" /\ pc' = "indexed") =>
           /\ year_name_counts' = year_name_counts
           /\ name_year_counts' = name_year_counts]_vars

\* -- C2 ----------------------------------------------------------------
FirstYear == MinOf(DOMAIN sorted_year_name_counts)
LastYear == MaxOf(DOMAIN sorted_year_name_counts)

Present(n, y) ==
    /\ y \in DOMAIN sorted_year_name_counts
    /\ n \in NamesOf(sorted_year_name_counts[y])

\* count / total >= p / q, in exact arithmetic
Sustained(n, p, q, year_min, year_max) ==
    \A y \in year_min..year_max :
        /\ Present(n, y)
        /\ ValueOf(sorted_year_name_counts[y], n) * q >= p * year_total_counts[y]

\* C2: the sustained check answers true exactly when the name is present
\* in every year of the window with count / total >= the threshold, and on
\* a window inside the dataset it answers false otherwise.
C2_SustainedIffEveryYearAbove ==
    (pc = "done" /\ call.op = "above") =>
        LET holds == Sustained(call.name, call.min_frequency[1],
                               call.min_frequency[2], call.year_min,
                               call.year_max)
        IN  /\ ret.val = "True" <=> holds
            /\ (FirstYear <= call.year_min /\ call.year_max <= LastYear /\ ~holds)
                   => ret.val = "False"

C2_Witness ==
    /\ pc = "done" /\ call.op = "above" /\ ret.val = "False"
    /\ call.year_min = FirstYear /\ call.year_max = LastYear
    /\ FirstYear < LastYear
    /\ Sustained(call.name, call.min_frequency[1], call.min_frequency[2],
                 FirstYear, LastYear - 1)
    /\ ~Present(call.name, LastYear)

\* -- C3 ----------------------------------------------------------------
NameCountOver(n, years) ==
    SumOver(years, [y \in years |-> ValueOf(sorted_year_name_counts[y], n)])

TotalOver(years) == SumOver(years, [y \in years |-> year_total_counts[y]])

Mid(year_min, year_max) == year_min + ((year_max - year_min + 2) \div 2)

\* 4 * En * Lt > 5 * Ln * Et over the two halves of the window
Falling(n, year_min, year_max) ==
    LET early == year_min..(Mid(year_min, year_max) - 1)
        late == Mid(year_min, year_max)..year_max
    IN  4 * NameCountOver(n, early) * TotalOver(late)
            > 5 * NameCountOver(n, late) * TotalOver(early)

\* C3: the falling check answers true exactly when
\* 4 * En * Lt > 5 * Ln * Et, the sums taken over the early half
\* [year_min, mid) and the late half [mid, year_max].
C3_FallingIsPooledComparison ==
    (pc = "done" /\ call.op = "falling" /\ ret.val \in {"True", "False"}) =>
        (ret.val = "True" <=> Falling(call.name, call.year_min, call.year_max))

\* -- C8 ----------------------------------------------------------------
\* C8: a call of either check with a window reaching outside the years of
\* the dataset ends in an error, never in a boolean.
C8_WindowOutsideDatasetRejected ==
    (/\ pc = "done" /\ call.op \in {"above", "falling"}
     /\ call.year_min <= call.year_max
     /\ (call.year_min < FirstYear \/ call.year_max > LastYear)) =>
        ret.val \notin {"True", "False"}

\* -- C4 ----------------------------------------------------------------
\* The names the filter is to retain, in the order of the pool.
Retained(num_candidates, year) ==
    LET pool == Candidates(num_candidates, sorted_year_name_counts[year])
        p == ValueOf(sorted_year_name_counts[year], pool[Len(pool)])
        q == year_total_counts[year]
        Keep(n) ==
            /\ Sustained(n, p, q, year - 49, year)
            /\ ~Falling(n, year - 9, year)
            /\ ~Falling(n, year - 19, year)
            /\ ~Falling(n, year - 49, year)
    IN  SelectSeq(pool, Keep)

\* C4: the names printed by the filter are exactly the candidates, in the
\* order of the pool, that are sustained over [Y-49, Y] at the frequency of
\* the last candidate and not falling over [Y-9, Y], [Y-19, Y], [Y-49, Y].
C4_FilterKeepsSustainedNotFalling ==
    (pc = "done" /\ call.op = "filter" /\ ret.err = "none") =>
        [i \in 1..Len(ret.out) |-> ret.out[i][1]]
            = Retained(call.num_candidates, call.year)

\* -- C10 ---------------------------------------------------------------
FilterPrecondition ==
    /\ call.num_candidates >= 1
    /\ call.year \in DOMAIN sorted_year_name_counts
    /\ sorted_year_name_counts[call.year] # <<>>
    /\ FirstYear <= call.year - 49

\* C10: with at least one candidate and the 50 year window inside the
\* dataset the filter raises nothing: the sustained check of each candidate
\* answers a boolean, and each falling check of a candidate that passed it
\* answers a boolean.
C10_FilterNeverRaises ==
    (pc = "done" /\ call.op = "filter" /\ FilterPrecondition) =>
        /\ ret.err = "none"
        /\ LET year == call.year
               sync == sorted_year_name_counts
               ytc == year_total_counts
               pool == Candidates(call.num_candidates, sync[year])
               mf == FDiv(sync[year][Len(pool)][2], ytc[year])
           IN  \A i \in 1..Len(pool) :
                   LET above == IsNameFrequencyAboveThreshold(
                                    pool[i], mf, year - 49, year, sync, ytc)
                   IN  /\ above \in {"True", "False"}
                       /\ above = "True" =>
                           \A len \in {10, 20, 50} :
                               IsNameFrequencyFalling(
                                   pool[i], year - len + 1, year, sync, ytc)
                                   \in {"True", "False"}

C10_Witness ==
    /\ pc = "done" /\ call.op = "filter" /\ FilterPrecondition
    /\ ret.err = "none"
    /\ Len(ret.out) = 1
    /\ call.num_candidates = 2
    /\ Len(sorted_year_name_counts[call.year]) = 2
    /\ \E y \in (call.year - 49)..call.year :
           Len(sorted_year_name_counts[y]) = 1

=============================================================================
